---- MODULE Spec2Model ----
\* binding_site.py: search gzipped FASTA files of gene regions for literal
\* search strings and append one row per matching record to a tab-separated
\* output file.  Text is modelled by TLA+ strings; a list by a sequence.
EXTENDS Integers, Sequences, FiniteSets, TLC

VARIABLES
    path,          \* args["path"]
    genes,         \* args["genes"], the list of gene regions
    arg,           \* args["searchString"] as given on the command line
    disk,          \* file system: path |-> (decompressed) text of the file
    outExists,     \* os.path.exists(output)
    out,           \* rows of the output file, each tagged with where it came from
    stdout,        \* lines printed by the current run
    pc,            \* position of the current run in FindBindingSites
    searchString,  \* the list of search strings (lines 89-94)
    gi,            \* index of `gene` in genes (loop of line 102)
    si,            \* index of `ss` in searchString (loop of line 112)
    chunks,        \* the list [c for c in content.split(">") if c] (line 74)
    ri,            \* index of `data` in chunks (loop of line 74)
    seq,           \* local `seq` of SearchForBindingSite (line 75)
    hdr,           \* local dict `header` of SearchForBindingSite (line 79)
    results,       \* local `results` of SearchForBindingSite
    run            \* number of the current invocation of the program

vars == <<path, genes, arg, disk, outExists, out, stdout, pc, searchString,
          gi, si, chunks, ri, seq, hdr, results, run>>

\* ------------------------------------------------------------------ bounds
MaxGenes == 2
MaxRuns == 2

\* ------------------------------------------------------- Python built-ins
Ch(s, i) == SubSeq(s, i, i)

Rest(s) == SubSeq(s, 2, Len(s))

\* string.whitespace, as far as the alphabet of the model reaches
Whitespace == {" ", "\t", "\n", "\r"}

\* s.split(sep) for a one-character separator: the parts between the
\* occurrences of sep, always at least one part
split(s, sep) ==
    LET at == {i \in 1..Len(s) : Ch(s, i) = sep}
        cut(k) == IF k = 0 THEN 0
                  ELSE IF k > Cardinality(at) THEN Len(s) + 1
                  ELSE CHOOSE i \in at : Cardinality({j \in at : j <= i}) = k
    IN  [k \in 1..(Cardinality(at) + 1) |-> SubSeq(s, cut(k - 1) + 1, cut(k) - 1)]

\* s.lstrip()
RECURSIVE lstrip(_)
lstrip(s) ==
    IF s # "" /\ Ch(s, 1) \in Whitespace THEN lstrip(Rest(s)) ELSE s

\* s.rstrip()
RECURSIVE rstrip(_)
rstrip(s) ==
    IF s # "" /\ Ch(s, Len(s)) \in Whitespace
    THEN rstrip(SubSeq(s, 1, Len(s) - 1))
    ELSE s

\* s.strip()
strip(s) == rstrip(lstrip(s))

\* the first whitespace-free word of s, s not starting with whitespace
RECURSIVE FirstWord(_)
FirstWord(s) ==
    IF s = "" \/ Ch(s, 1) \in Whitespace THEN ""
    ELSE Ch(s, 1) \o FirstWord(Rest(s))

\* s.split() without a separator: the runs of non-whitespace characters
RECURSIVE splitWhitespace(_)
splitWhitespace(s) ==
    LET t == lstrip(s)
    IN  IF t = "" THEN << >>
        ELSE LET w == FirstWord(t)
             IN  << w >> \o splitWhitespace(SubSeq(t, Len(w) + 1, Len(t)))

\* ''.join(parts)
RECURSIVE join(_)
join(parts) ==
    IF parts = << >> THEN "" ELSE Head(parts) \o join(Tail(parts))

\* needle in s
In(needle, s) ==
    \E i \in 1..(Len(s) - Len(needle) + 1) : SubSeq(s, i, i + Len(needle) - 1) = needle

\* lst[1:]
SliceFrom1(lst) == IF lst = << >> THEN << >> ELSE Tail(lst)

\* lst[1:-1]
Slice1ToLast(lst) == IF Len(lst) < 3 THEN << >> ELSE SubSeq(lst, 2, Len(lst) - 1)

\* None and a string value v are <<>> and <<v>>
None == << >>

\* dict(pairs) for a list of [key, value] lists: the last pair of a key wins
dict(pairs) ==
    [k \in {pairs[i][1] : i \in 1..Len(pairs)} |->
        LET last == CHOOSE i \in 1..Len(pairs) :
                        /\ pairs[i][1] = k
                        /\ \A j \in (i + 1)..Len(pairs) : pairs[j][1] # k
        IN  pairs[last][2]]

\* d.get(key)
get(d, key) == IF key \in DOMAIN d THEN << d[key] >> ELSE None

\* what csv.writer writes for a field: None as the empty string
CsvField(v) == IF v = None THEN "" ELSE v[1]

\* --------------------------------------------------------- binding_site.py
header == << "Part of gene", "Pattern Matched", "Gene Matched",
             "Length of Sequence Matched" >>

\* gzip.open(filePath).read(): disk holds the text that decompression yields
GetFileContents(filePath) == disk[filePath]

\* [c for c in content.split(">") if c]
Chunks(content) == SelectSeq(split(content, ">"), LAMBDA c : c # "")

\* seq = ''.join(data.split("\n")[1:])
RecordSeqWithHeader(data) == join(split(data, "\n"))

RecordSeq(data) == join(SliceFrom1(split(data, "\n")))

\* [d.strip().split("=") for d in data.split("\n")[0].split(";")[1:-1]]
HeaderPairs(data) ==
    LET tokens == Slice1ToLast(split(Head(split(data, "\n")), ";"))
    IN  [k \in 1..Len(tokens) |-> split(strip(tokens[k]), "=")]

\* dict(...) raises ValueError unless every element has length 2
DictRaises(pairs) == \E k \in 1..Len(pairs) : Len(pairs[k]) # 2

\* os.path.join(args["path"], "%(species)s-%(chromosome)s-%(gene)s-%(version)s.fasta.gz")
species == "dmel"

chromosome == "4"

version == "r5.57"

FilePath(gene) ==
    path \o "/" \o species \o "-" \o chromosome \o "-" \o gene \o "-"
         \o version \o ".fasta.gz"

\* os.path.exists(p)
Exists(p) == p \in DOMAIN disk

\* searchString = [s for s in f.read().split("\n") if s]
FilePatternsKeepingBlank(text) == split(text, "\n")

FilePatterns(text) == SelectSeq(split(text, "\n"), LAMBDA s : s # "")

\* searchString = searchString.split()
ArgPatternsUnsplit(a) == << a >>

ArgPatterns(a) == splitWhitespace(a)

\* WriteHeader(output): the file after the call, given the file before it
HeaderRow == [row |-> header, at |-> << run, 0, 0, 0 >>]

WriteHeaderAlways(exists, file) == file \o << HeaderRow >>

WriteHeaderFile(exists, file) == IF ~exists THEN << HeaderRow >> ELSE file

\* for r in result: writer.writerow([gene] + r), in a file opened with 'ab'
RowsOfReversed(gene, result) ==
    [k \in 1..Len(result) |->
        LET r == result[Len(result) + 1 - k]
        IN  [row |-> << gene, r.row[1], CsvField(r.row[2]), CsvField(r.row[3]) >>,
             at  |-> << run, gi, si, r.rec >>]]

RowsOf(gene, result) ==
    [k \in 1..Len(result) |->
        [row |-> << gene, result[k].row[1], CsvField(result[k].row[2]),
                    CsvField(result[k].row[3]) >>,
         at  |-> << run, gi, si, result[k].rec >>]]

OpenTruncating(file, rows) == rows

OpenAppend(file, rows) == file \o rows

\* the gene loop after a region whose file is missing (lines 121-122)
AbortOnMissing(i) == Len(genes) + 1

AfterMissing(i) == i + 1

\* ------------------------------------------------------------ input files
GeneNames == {"exon", "intron"}

\* header lines (without the leading ">")
HdrFirst == "FBtr1 type=exon; length=10; parent=FBgn0000001;"

HdrSecond == "FBtr2 type=exon; parent=FBgn0000002; length=20; release=r5.57;"

HdrSpaced == "FBtr3 type=exon; parent = FBgn0000003; length= 30 ;"

HdrNoParent == "FBtr4 type=exon; length=40;"

HdrNoEquals == "FBtr5 type=exon; parent; length=50;"

HdrTwoEquals == "FBtr6 type=exon; parent=FBgn=6; length=60;"

HdrWithPattern == "ACGT type=exon; length=70; parent=FBgn0000007;"

Headers == {HdrFirst, HdrSecond, HdrSpaced, HdrNoParent, HdrNoEquals,
            HdrTwoEquals, HdrWithPattern}

\* sequence lines
Bodies == {"ACGT\n", "AC\nGT\n", "GGAC\nCG", "TT\n", "AC\r\nGT\r\n", ""}

Record(h, b) == ">" \o h \o "\n" \o b

\* the texts the file of gene region "exon" may hold
ExonTexts ==
    {Record(h, b) : h \in Headers, b \in {"AC\nGT\n", "TT\n"}}
    \cup {Record(HdrFirst, b) : b \in Bodies}
    \cup {Record(HdrFirst, b1) \o Record(h2, b2) :
             b1 \in {"TT\n", "AC\nGT\n"},
             h2 \in {HdrSecond, HdrNoEquals, HdrSpaced},
             b2 \in {"ACGT\n", "GGAC\nCG"}}
    \cup {Record(HdrWithPattern, "TT\n") \o Record(HdrSecond, "AC\nGT\n")}
    \cup {"", ">" \o HdrSecond}

\* the texts the file of gene region "intron" may hold
IntronTexts == {Record(HdrSecond, "GGAC\nCG\nTT\n")}

\* the command line's search strings, and the pattern files it may name
ArgStrings == {"ACGT", "CG", "AC GT", " TT", ""}

PatternFileName == "patterns.txt"

PatternFileTexts == {"ACGT\n\nCG\n", "ACGT\nCG", "\nTT\n\n", "AC GT\n"}

LocalPath == "."

FtpPath == "ftp://ftp.flybase.net/releases/current/dmel_r5.57/fasta"

GeneLists == UNION {[1..n -> GeneNames] : n \in 1..MaxGenes}

\* a file system: each gene region's file present or missing, the pattern
\* file present or missing
Disks(p) ==
    LET name(g) == p \o "/" \o species \o "-" \o chromosome \o "-" \o g
                     \o "-" \o version \o ".fasta.gz"
        exon    == {<< >>} \cup {[x \in {name("exon")} |-> t] : t \in ExonTexts}
        intron  == {<< >>} \cup {[x \in {name("intron")} |-> t] : t \in IntronTexts}
        pattern == {<< >>} \cup {[x \in {PatternFileName} |-> t] : t \in PatternFileTexts}
    IN  {e @@ i @@ f : e \in exon, i \in intron, f \in pattern}

Init ==
    /\ \/ /\ path = LocalPath
          /\ genes \in GeneLists
          /\ disk \in Disks(LocalPath)
          /\ arg \in IF PatternFileName \in DOMAIN disk
                     THEN {PatternFileName} ELSE ArgStrings
       \/ /\ path = FtpPath
          /\ genes \in GeneLists
          /\ disk \in {d \in Disks(FtpPath) : PatternFileName \notin DOMAIN d}
          /\ arg = "ACGT"
    /\ outExists = FALSE
    /\ out = << >>
    /\ stdout = << >>
    /\ pc = "patterns"
    /\ searchString = << >>
    /\ gi = 1
    /\ si = 1
    /\ chunks = << >>
    /\ ri = 1
    /\ seq = ""
    /\ hdr = << >>
    /\ results = << >>
    /\ run = 1

\* ------------------------------------------------------- FindBindingSites
inputs == << path, genes, arg, disk >>

scan == << chunks, ri, seq, hdr, results >>

\* lines 90-92: the search string names an existing file
ReadPatternFile ==
    /\ pc = "patterns"
    /\ Exists(arg)
    /\ searchString' = FilePatterns(disk[arg])
    /\ pc' = "header"
    /\ UNCHANGED << inputs, outExists, out, stdout, gi, si, scan, run >>

\* lines 93-94: it does not
SplitSearchString ==
    /\ pc = "patterns"
    /\ ~Exists(arg)
    /\ searchString' = ArgPatterns(arg)
    /\ pc' = "header"
    /\ UNCHANGED << inputs, outExists, out, stdout, gi, si, scan, run >>

\* lines 96-100
WriteHeader ==
    /\ pc = "header"
    /\ out' = WriteHeaderFile(outExists, out)
    /\ outExists' = TRUE
    /\ gi' = 1
    /\ pc' = "gene"
    /\ UNCHANGED << inputs, stdout, searchString, si, scan, run >>

\* lines 102-110: an FTP location is printed and not searched
GeneFtp ==
    /\ pc = "gene"
    /\ gi <= Len(genes)
    /\ In("ftp://", path)
    /\ stdout' = Append(stdout, "FTP location: " \o FilePath(genes[gi]))
    /\ gi' = gi + 1
    /\ UNCHANGED << inputs, outExists, out, pc, searchString, si, scan, run >>

\* lines 111-112: the file of the gene region exists
GeneFound ==
    /\ pc = "gene"
    /\ gi <= Len(genes)
    /\ ~In("ftp://", path)
    /\ Exists(FilePath(genes[gi]))
    /\ si' = 1
    /\ pc' = "pattern"
    /\ UNCHANGED << inputs, outExists, out, stdout, searchString, gi, scan, run >>

\* lines 121-122: it does not
GeneMissing ==
    /\ pc = "gene"
    /\ gi <= Len(genes)
    /\ ~In("ftp://", path)
    /\ ~Exists(FilePath(genes[gi]))
    /\ stdout' = Append(stdout, "Could not locate " \o FilePath(genes[gi]))
    /\ gi' = AfterMissing(gi)
    /\ UNCHANGED << inputs, outExists, out, pc, searchString, si, scan, run >>

\* lines 112-114, 71-74: the next search string; the file is read and split
StartSearch ==
    /\ pc = "pattern"
    /\ si <= Len(searchString)
    /\ stdout' = Append(stdout, "Searching " \o FilePath(genes[gi]) \o " for "
                                  \o searchString[si] \o "...")
    /\ chunks' = Chunks(GetFileContents(FilePath(genes[gi])))
    /\ ri' = 1
    /\ results' = << >>
    /\ pc' = "record"
    /\ UNCHANGED << inputs, outExists, out, searchString, gi, si, seq, hdr, run >>

\* line 112: no search string is left for this gene region
PatternsDone ==
    /\ pc = "pattern"
    /\ si > Len(searchString)
    /\ gi' = gi + 1
    /\ pc' = "gene"
    /\ UNCHANGED << inputs, outExists, out, stdout, searchString, si, scan, run >>

\* lines 74-77: the search string is not in the record's sequence
RecordSkip ==
    /\ pc = "record"
    /\ ri <= Len(chunks)
    /\ seq' = RecordSeq(chunks[ri])
    /\ ~In(searchString[si], seq')
    /\ ri' = ri + 1
    /\ UNCHANGED << inputs, outExists, out, stdout, pc, searchString, gi, si,
                    chunks, hdr, results, run >>

\* lines 74-82: it is, and the header line makes a dict
RecordAppend ==
    /\ pc = "record"
    /\ ri <= Len(chunks)
    /\ seq' = RecordSeq(chunks[ri])
    /\ In(searchString[si], seq')
    /\ ~DictRaises(HeaderPairs(chunks[ri]))
    /\ hdr' = dict(HeaderPairs(chunks[ri]))
    /\ results' = Append(results,
                         [row |-> << searchString[si], get(hdr', "parent"),
                                     get(hdr', "length") >>,
                          rec |-> ri])
    /\ ri' = ri + 1
    /\ UNCHANGED << inputs, outExists, out, stdout, pc, searchString, gi, si,
                    chunks, run >>

\* lines 74-80: it is, and dict() raises ValueError, which nothing catches
RecordRaise ==
    /\ pc = "record"
    /\ ri <= Len(chunks)
    /\ seq' = RecordSeq(chunks[ri])
    /\ In(searchString[si], seq')
    /\ DictRaises(HeaderPairs(chunks[ri]))
    /\ pc' = "crashed"
    /\ UNCHANGED << inputs, outExists, out, stdout, searchString, gi, si,
                    chunks, ri, hdr, results, run >>

\* lines 84, 116-120: the results are appended to the output file
WriteRows ==
    /\ pc = "record"
    /\ ri > Len(chunks)
    /\ out' = OpenAppend(out, RowsOf(genes[gi], results))
    /\ si' = si + 1
    /\ pc' = "pattern"
    /\ UNCHANGED << inputs, outExists, stdout, searchString, gi, scan, run >>

\* line 102: no gene region is left; the program ends
Finish ==
    /\ pc = "gene"
    /\ gi > Len(genes)
    /\ pc' = "done"
    /\ UNCHANGED << inputs, outExists, out, stdout, searchString, gi, si, scan, run >>

\* the program is run again with the same arguments on the same file system
Rerun ==
    /\ pc \in {"done", "crashed"}
    /\ run < MaxRuns
    /\ run' = run + 1
    /\ pc' = "patterns"
    /\ stdout' = << >>
    /\ searchString' = << >>
    /\ gi' = 1
    /\ si' = 1
    /\ chunks' = << >>
    /\ ri' = 1
    /\ seq' = ""
    /\ hdr' = << >>
    /\ results' = << >>
    /\ UNCHANGED << inputs, outExists, out >>

Next ==
    \/ ReadPatternFile
    \/ SplitSearchString
    \/ WriteHeader
    \/ GeneFtp
    \/ GeneFound
    \/ GeneMissing
    \/ StartSearch
    \/ PatternsDone
    \/ RecordSkip
    \/ RecordAppend
    \/ RecordRaise
    \/ WriteRows
    \/ Finish
    \/ Rerun

Spec == Init /\ [][Next]_vars

\* ------------------------------------- SearchForBindingSite as one call
\* lines 68-84 from record k of the list on: the rows found, or the ValueError
RECURSIVE SearchFrom(_, _, _)
SearchFrom(list, ss, k) ==
    IF k > Len(list) THEN [raised |-> FALSE, results |-> << >>]
    ELSE IF ~In(ss, RecordSeq(list[k])) THEN SearchFrom(list, ss, k + 1)
    ELSE IF DictRaises(HeaderPairs(list[k])) THEN [raised |-> TRUE, results |-> << >>]
    ELSE LET d    == dict(HeaderPairs(list[k]))
             rest == SearchFrom(list, ss, k + 1)
         IN  [raised  |-> rest.raised,
              results |-> IF rest.raised THEN << >>
                          ELSE << << ss, get(d, "parent"), get(d, "length") >> >>
                               \o rest.results]

SearchForBindingSite(filePath, ss) ==
    SearchFrom(Chunks(GetFileContents(filePath)), ss, 1)

\* lines 102-122 as one call: the rows a run appends for the gene regions
\* geneList and the search strings patterns, from combination c on; a
\* ValueError ends the run
RECURSIVE ScanRows(_, _, _)
ScanRows(geneList, patterns, c) ==
    IF c > Len(geneList) * Len(patterns) THEN << >>
    ELSE LET gene == geneList[((c - 1) \div Len(patterns)) + 1]
             ss   == patterns[((c - 1) % Len(patterns)) + 1]
         IN  IF In("ftp://", path) \/ ~Exists(FilePath(gene))
             THEN ScanRows(geneList, patterns, c + 1)
             ELSE LET r == SearchForBindingSite(FilePath(gene), ss)
                  IN  IF r.raised THEN << >>
                      ELSE [k \in 1..Len(r.results) |->
                               << gene, ss, CsvField(r.results[k][2]),
                                  CsvField(r.results[k][3]) >>]
                           \o ScanRows(geneList, patterns, c + 1)

\* ------------------------------------------------- vocabulary of the claims
\* the rows (without their tags) of a list of tagged rows
RowsIn(entries) == [k \in 1..Len(entries) |-> entries[k].row]

\* the data rows that run r wrote, and those it wrote for one combination
DataRows(r) == SelectSeq(out, LAMBDA e : e.at[1] = r /\ e.at[2] > 0)

ComboRows(r, g, s) ==
    SelectSeq(out, LAMBDA e : e.at[1] = r /\ e.at[2] = g /\ e.at[3] = s)

Ended == pc \in {"done", "crashed"}

\* s without the characters of the set drop
RECURSIVE Without(_, _)
Without(s, drop) ==
    IF s = "" THEN ""
    ELSE (IF Ch(s, 1) \in drop THEN "" ELSE Ch(s, 1)) \o Without(Rest(s), drop)

\* the record's sequence as the specification defines it: everything after
\* the header line, line breaks removed
BodyOf(data) ==
    LET nl == {i \in 1..Len(data) : Ch(data, i) = "\n"}
    IN  IF nl = {} THEN ""
        ELSE LET first == CHOOSE i \in nl : \A j \in nl : i <= j
             IN  Without(SubSeq(data, first + 1, Len(data)), {"\n"})

\* needle occurs in s, character by character
IsSubstring(needle, s) ==
    \E off \in 0..(Len(s) - Len(needle)) :
        \A k \in 1..Len(needle) : Ch(s, off + k) = Ch(needle, k)

\* the maximal runs of s that hold no character of seps, in order
Tokens(s, seps) ==
    LET starts == {i \in 1..Len(s) :
                      /\ Ch(s, i) \notin seps
                      /\ (i = 1 \/ Ch(s, i - 1) \in seps)}
        start(k) == CHOOSE i \in starts : Cardinality({j \in starts : j <= i}) = k
        stop(i)  == CHOOSE e \in i..Len(s) :
                        /\ \A j \in i..e : Ch(s, j) \notin seps
                        /\ (e = Len(s) \/ Ch(s, e + 1) \in seps)
    IN  [k \in 1..Cardinality(starts) |-> SubSeq(s, start(k), stop(start(k)))]

\* a text file with its blank lines removed
RECURSIVE JoinLines(_)
JoinLines(lines) ==
    IF lines = << >> THEN "" ELSE Head(lines) \o "\n" \o JoinLines(Tail(lines))

WithoutBlankLines(text) == JoinLines(Tokens(text, {"\n"}))

\* the attributes of a record's header as the specification parses them:
\* each token between the first and the last ";" split on "=", both sides
\* trimmed; a token that is no key=value pair has none
SpecTokens(data) == Slice1ToLast(split(Head(split(data, "\n")), ";"))

Malformed(data) ==
    \/ \E k \in 1..Len(SpecTokens(data)) : Len(split(SpecTokens(data)[k], "=")) # 2
    \/ \A k \in 1..Len(SpecTokens(data)) :
           strip(split(SpecTokens(data)[k], "=")[1]) # "parent"
    \/ \A k \in 1..Len(SpecTokens(data)) :
           strip(split(SpecTokens(data)[k], "=")[1]) # "length"

SpecAttr(data, key) ==
    LET t    == SpecTokens(data)
        have == {k \in 1..Len(t) : /\ Len(split(t[k], "=")) = 2
                                   /\ strip(split(t[k], "=")[1]) = key}
    IN  IF have = {} THEN ""
        ELSE strip(split(t[CHOOSE k \in have : \A j \in have : j <= k], "=")[2])

\* the rows the specification expects of one file and one search string
RECURSIVE ExpectedRows(_, _, _, _)
ExpectedRows(gene, ss, list, k) ==
    IF k > Len(list) THEN << >>
    ELSE (IF IsSubstring(ss, BodyOf(list[k]))
          THEN << << gene, ss, SpecAttr(list[k], "parent"),
                     SpecAttr(list[k], "length") >> >>
          ELSE << >>)
         \o ExpectedRows(gene, ss, list, k + 1)

LexLeq(a, b) ==
    \/ a[2] < b[2]
    \/ a[2] = b[2] /\ a[3] < b[3]
    \/ a[2] = b[2] /\ a[3] = b[3] /\ a[4] <= b[4]

IsPrefix(a, b) == Len(a) <= Len(b) /\ SubSeq(b, 1, Len(a)) = a

\* ------------------------------------------------------------------ claims
\* the record under the test of lines 75-77, and the search string tried on it
AtRecord == pc = "record" /\ ri <= Len(chunks)

C2_OneRowPerMatchingRecord ==
    LET expect(g, s) ==
            ExpectedRows(genes[g], searchString[s],
                         Chunks(GetFileContents(FilePath(genes[g]))), 1)
    IN  /\ (pc = "pattern" /\ si > 1) =>
               RowsIn(ComboRows(run, gi, si - 1)) = expect(gi, si - 1)
        /\ pc = "crashed" =>
               RowsIn(ComboRows(run, gi, si)) = expect(gi, si)

\* C3: the data rows of one run stand in the output file in the order
\* (region index, search string index, record position).
C3_RowsInOrder ==
    \A k, l \in 1..Len(out) :
        (k < l /\ out[k].at[1] = out[l].at[1]) => LexLeq(out[k].at, out[l].at)

\* C3 witness: one run has written rows for two records of one file and for a
\* later search string or region.
C3_Witness ==
    \E k, l, m \in 1..Len(out) :
        /\ k < l /\ l < m
        /\ out[k].at[2] > 0
        /\ out[k].at[1] = out[m].at[1]
        /\ << out[k].at[2], out[k].at[3] >> = << out[l].at[2], out[l].at[3] >>
        /\ out[k].at[4] # out[l].at[4]
        /\ << out[l].at[2], out[l].at[3] >> # << out[m].at[2], out[m].at[3] >>

\* the gene regions whose file exists
Present(geneList) == SelectSeq(geneList, LAMBDA g : Exists(FilePath(g)))

\* C4: a gene region whose file is missing is logged and writes no row, and
\* the run writes exactly the rows of the same request without the missing
\* regions.
C4_MissingRegionSkipped ==
    /\ \A g \in 1..Len(genes) :
           (pc # "patterns" /\ ~Exists(FilePath(genes[g]))) =>
               /\ \A k \in 1..Len(out) : out[k].at[1] = run => out[k].at[2] # g
               /\ (g < gi /\ ~In("ftp://", path)) =>
                      \E k \in 1..Len(stdout) :
                          stdout[k] = "Could not locate " \o FilePath(genes[g])
    /\ Ended => RowsIn(DataRows(run)) = ScanRows(Present(genes), searchString, 1)

\* C4 witness: a run has ended that skipped a missing region and wrote rows
\* for a region after it.
C4_Witness ==
    /\ pc = "done"
    /\ \E g, h \in 1..Len(genes) :
           /\ g < h
           /\ ~Exists(FilePath(genes[g]))
           /\ \E k \in 1..Len(out) : out[k].at[1] = run /\ out[k].at[2] = h

\* C5: at the end of every run the output file is the header row, once and
\* first, followed by the data rows of the first run once per run so far.
C5_HeaderOnceRowsAgain ==
    Ended =>
        /\ out[1].row = header
        /\ \A k \in 2..Len(out) : out[k].at[2] > 0
        /\ \A k, l \in 1..Len(out) : (k < l) => out[k].at[1] <= out[l].at[1]
        /\ \A r \in 1..run : RowsIn(DataRows(r)) = RowsIn(DataRows(1))

\* C5 witness: the second run has ended and has written the rows again.
C5_Witness ==
    /\ run = 2
    /\ pc = "done"
    /\ Len(DataRows(1)) >= 2
    /\ Len(out) = 1 + 2 * Len(DataRows(1))

C7_BlankLinesDiscarded ==
    (pc # "patterns" /\ Exists(arg)) =>
        /\ \A k \in 1..Len(searchString) : searchString[k] # ""
        /\ searchString = FilePatterns(WithoutBlankLines(disk[arg]))
        /\ Ended =>
               RowsIn(DataRows(run)) =
                   ScanRows(genes, FilePatterns(WithoutBlankLines(disk[arg])), 1)

\* C7 witness: a run with a pattern file that has blank lines has ended and
\* has written rows.
C7_Witness ==
    /\ pc = "done"
    /\ Exists(arg)
    /\ IsSubstring("\n\n", disk[arg])
    /\ DataRows(run) # << >>

\* C8 (as claimed): no malformed header ends the scan, and a record whose
\* header is malformed is skipped: it writes no row.
C8_MalformedSkippedNotFatal ==
    /\ pc # "crashed"
    /\ \A k \in 1..Len(out) :
           out[k].at[2] > 0 =>
               ~Malformed(Chunks(GetFileContents(FilePath(genes[out[k].at[2]])))
                              [out[k].at[4]])

\* C9 (as claimed): the sequence of a parsed record holds no line-break
\* character and is its body lines joined, and no key and no value of its
\* attributes starts or ends with whitespace.
C9_ParsedRecordClean ==
    /\ \A i \in 1..Len(seq) : Ch(seq, i) \notin {"\n", "\r"}
    /\ (pc = "record" /\ ri > 1 /\ ri <= Len(chunks) + 1) =>
           seq = BodyOf(chunks[ri - 1])
    /\ \A key \in DOMAIN hdr :
           /\ key = strip(key)
           /\ hdr[key] = strip(hdr[key])

\* the combinations of the current run that are finished
Finished(g, s) ==
    /\ pc \notin {"patterns", "header"}
    /\ g \in 1..Len(genes)
    /\ s \in 1..Len(searchString)
    /\ g < gi \/ (g = gi /\ s < si /\ pc \in {"pattern", "record", "crashed"})
    /\ ~In("ftp://", path)
    /\ Exists(FilePath(genes[g]))

AllWritten ==
    \A g \in 1..Len(genes), s \in 1..Len(searchString) :
        Finished(g, s) =>
            LET r == SearchForBindingSite(FilePath(genes[g]), searchString[s])
            IN  /\ ~r.raised
                /\ RowsIn(ComboRows(run, g, s)) =
                       [k \in 1..Len(r.results) |->
                           << genes[g], searchString[s], CsvField(r.results[k][2]),
                              CsvField(r.results[k][3]) >>]

\* C10: every step leaves what the output file holds in place, in front of
\* what it adds, and after every step the rows of every finished combination
\* of a region and a search string are in the file, also when the run has
\* ended with an exception in a later combination.
C10_SinkOnlyGrows ==
    [][IsPrefix(out, out')]_vars /\ []AllWritten

\* C10 witness: a run has ended with an exception after it wrote rows.
C10_Witness ==
    /\ pc = "crashed"
    /\ DataRows(run) # << >>
    /\ out[1].row = header

====
